---- MODULE Spec2Model ----
(***************************************************************************)
(* The source processing job lifecycle of foundry-v8:                      *)
(*   server/routes/processing.routes.ts  (start, poll, cancel, executor)   *)
(*   server/routes/sources.routes.ts     (configuration, soft delete)      *)
(*   server/routes/datasets.routes.ts    (dataset deletion)                *)
(*   server/db/schema.ts                 (tables and column defaults)      *)
(* Every `await` on the database is an interleaving point of the start     *)
(* and cancel handlers and of the background executor simulateProcessing.  *)
(***************************************************************************)
EXTENDS Integers, Sequences, FiniteSets, TLC

(* ------------------------------ bounds -------------------------------- *)
\* rows the processing_jobs table may hold
MaxJobs == 2
\* start/cancel request handlers that may be suspended at an await at once
MaxInFlight == 1

(* ------------------------- fixed data of a run ------------------------- *)
\* The sources of the run, created by POST /projects/:projectId/sources.
SourceIds == {1, 2}
\* The targetSchema.fields arrays PUT /configuration is called with.
FieldLists == {<<>>, <<"email">>}
\* The authenticated callers.
UserIds == {1, 2}
\* users.organizationId: user 1 belongs to organization 1, user 2 to 2.
organizationId(u) == u
\* sources.projectId -> projects.userId: both sources belong to user 1.
projectUserId(s) == 1

\* A nullable text column holding SQL NULL.
Null == "null"
\* A nullable integer column holding SQL NULL (total_records).
NullInt == -1

\* A free handler slot.
idle == [op |-> "idle", pc |-> "idle", userId |-> 0, sourceId |-> 0,
         jobId |-> 0, code |-> "none", body |-> <<>>]

VARIABLES
    sources,               \* sources table: id -> [status, deletedAt]
    sourceFiles,           \* source ids that have a source_files row
    sourceConfigurations,  \* source id -> targetSchema.fields
    processingJobs,        \* processing_jobs table, index = serial id
    datasets,              \* datasets table, a set of rows
    datasetsIdSeq,         \* last value of the datasets.id serial
    executor,              \* position of simulateProcessing(job), by job id
    handlers               \* request handlers: suspended at an await, or
                           \* holding the response that is being sent

vars == <<sources, sourceFiles, sourceConfigurations, processingJobs, datasets,
          datasetsIdSeq, executor, handlers>>

(* ------------------------------ helpers ------------------------------- *)
JobIds == 1..Len(processingJobs)

\* db.update(processingJobs).set(fields).where(id = jobId)
UpdateJob(jobId, fields) ==
    [processingJobs EXCEPT ![jobId] =
        [k \in DOMAIN @ |-> IF k \in DOMAIN fields THEN fields[k] ELSE @[k]]]

\* db.update(sources).set({status}).where(id = sourceId)
UpdateSourceStatus(sourceId, status) ==
    [sources EXCEPT ![sourceId].status = status]


FreeSlots == {h \in DOMAIN handlers : handlers[h].op = "idle"}
\* a new request takes the lowest free slot
NewSlot == CHOOSE h \in FreeSlots : \A g \in FreeSlots : h <= g

\* A request of route op by the authenticated user on :sourceId / :jobId,
\* about to run its handler.
Request(op, userId, sourceId, jobId) ==
    [op |-> op, pc |-> "verify", userId |-> userId, sourceId |-> sourceId,
     jobId |-> jobId, code |-> "none", body |-> <<>>]

\* The handler (or the error middleware, for a thrown error) sends the response.
Reply(req, code, body) ==
    [req EXCEPT !.pc = "respond", !.code = code, !.body = body]

\* start requests that will still insert a job row (they count towards MaxJobs)
StartsBeforeInsert ==
    Cardinality({h \in DOMAIN handlers :
        handlers[h].op = "start" /\ handlers[h].pc \in {"config", "running", "insert"}})

\* verifySourceAccess: NotFound for a missing or soft-deleted source, then
\* Forbidden when the caller's organization is not the owner's.
verifySourceAccess(sourceId, userId) ==
    IF sourceId \notin DOMAIN sources \/ sources[sourceId].deletedAt
    THEN "NotFound"
    ELSE IF organizationId(userId) # organizationId(projectUserId(sourceId))
         THEN "Forbidden"
         ELSE "ok"

\* Mutant: the job guard does not compare organizations.
verifyJobAccessAnyOrg(jobId, userId) ==
    IF jobId \notin JobIds THEN "NotFound" ELSE "ok"

\* verifyJobAccess: joins job -> source -> project -> user without looking
\* at sources.deletedAt.
verifyJobAccess(jobId, userId) ==
    IF jobId \notin JobIds
    THEN "NotFound"
    ELSE IF organizationId(userId)
              # organizationId(projectUserId(processingJobs[jobId].sourceId))
         THEN "Forbidden"
         ELSE "ok"

\* The column defaults of a row inserted with {sourceId, status: 'pending'}.
NewJob(sourceId) ==
    [sourceId |-> sourceId, status |-> "pending", stage |-> Null,
     progress |-> 0, recordsProcessed |-> 0, totalRecords |-> NullInt,
     errorMessage |-> Null, startedAt |-> FALSE, completedAt |-> FALSE]

(* ------------------------------- Init --------------------------------- *)
\* Two sources as POST /projects/:projectId/sources leaves them: status
\* pending, the default configuration with no fields; source 1 is of type
\* file, source 2 of type api (it has no source_files row).
Init ==
    /\ sources = [s \in SourceIds |-> [status |-> "pending", deletedAt |-> FALSE]]
    /\ sourceFiles = {1}
    /\ sourceConfigurations = [s \in SourceIds |-> <<>>]
    /\ processingJobs = <<>>
    /\ datasets = {}
    /\ datasetsIdSeq = 0
    /\ executor = <<>>
    /\ handlers = [h \in 1..MaxInFlight |-> idle]

(* ---------------- POST /api/sources/:sourceId/process ------------------ *)
\* verifySourceAccess (await): an access error ends the request; otherwise
\* the handler goes on to read the configuration.
StartVerify(sourceId, userId) ==
    LET access == verifySourceAccess(sourceId, userId)
        req == Request("start", userId, sourceId, 0) IN
    /\ FreeSlots # {}
    /\ IF access # "ok"
       THEN handlers' = [handlers EXCEPT ![NewSlot] = Reply(req, access, <<>>)]
       ELSE /\ Len(processingJobs) + StartsBeforeInsert < MaxJobs
            /\ handlers' = [handlers EXCEPT ![NewSlot] = [req EXCEPT !.pc = "config"]]
    /\ UNCHANGED <<sources, sourceFiles, sourceConfigurations, processingJobs,
                   datasets, datasetsIdSeq, executor>>

\* !config || !JSON.parse(config.targetSchema).fields?.length
ConfigUnprocessable(sourceId) ==
    \/ sourceId \notin DOMAIN sourceConfigurations
    \/ Len(sourceConfigurations[sourceId]) = 0

\* Mutant: only a missing configuration row is refused, not an empty schema.
StartCheckConfigRowOnly(h) ==
    /\ handlers[h].op = "start" /\ handlers[h].pc = "config"
    /\ handlers' = [handlers EXCEPT ![h] =
            IF @.sourceId \notin DOMAIN sourceConfigurations
            THEN Reply(@, "Unprocessable", <<>>)
            ELSE [@ EXCEPT !.pc = "running"]]
    /\ UNCHANGED <<sources, sourceFiles, sourceConfigurations, processingJobs,
                   datasets, datasetsIdSeq, executor>>

\* select the configuration (await) and check it has a field.
StartCheckConfig(h) ==
    /\ handlers[h].op = "start" /\ handlers[h].pc = "config"
    /\ handlers' = [handlers EXCEPT ![h] =
            IF ConfigUnprocessable(@.sourceId)
            THEN Reply(@, "Unprocessable", <<>>)
            ELSE [@ EXCEPT !.pc = "running"]]
    /\ UNCHANGED <<sources, sourceFiles, sourceConfigurations, processingJobs,
                   datasets, datasetsIdSeq, executor>>

\* Mutant: the query looks for a running job of any source.
RunningJobsAnySource(sourceId) ==
    {j \in JobIds : processingJobs[j].status = "running"}

\* select ... where sourceId = :sourceId and status = 'running' limit 1
RunningJobs(sourceId) ==
    {j \in JobIds : /\ processingJobs[j].sourceId = sourceId
                    /\ processingJobs[j].status = "running"}

\* Mutant: the query looks for a pending job instead of a running one.
StartCheckRunningPendingOnly(h) ==
    /\ handlers[h].op = "start" /\ handlers[h].pc = "running"
    /\ handlers' = [handlers EXCEPT ![h] =
            IF \E j \in JobIds : /\ processingJobs[j].sourceId = @.sourceId
                                 /\ processingJobs[j].status = "pending"
            THEN Reply(@, "BadRequest", <<>>)
            ELSE [@ EXCEPT !.pc = "insert"]]
    /\ UNCHANGED <<sources, sourceFiles, sourceConfigurations, processingJobs,
                   datasets, datasetsIdSeq, executor>>

\* select a running job of the source (await); one found is a BadRequest.
StartCheckRunning(h) ==
    /\ handlers[h].op = "start" /\ handlers[h].pc = "running"
    /\ handlers' = [handlers EXCEPT ![h] =
            IF RunningJobs(@.sourceId) # {}
            THEN Reply(@, "BadRequest", <<>>)
            ELSE [@ EXCEPT !.pc = "insert"]]
    /\ UNCHANGED <<sources, sourceFiles, sourceConfigurations, processingJobs,
                   datasets, datasetsIdSeq, executor>>

\* insert the job row (await); simulateProcessing has not been called yet.
StartInsert(h) ==
    /\ handlers[h].op = "start" /\ handlers[h].pc = "insert"
    /\ processingJobs' = Append(processingJobs, NewJob(handlers[h].sourceId))
    /\ executor' = Append(executor, "notStarted")
    /\ handlers' = [handlers EXCEPT ![h].pc = "status",
                                    ![h].jobId = Len(processingJobs) + 1]
    /\ UNCHANGED <<sources, sourceFiles, sourceConfigurations, datasets,
                   datasetsIdSeq>>

\* Mutant: the handler skips the update of the source status.
StartSetStatusSkipsSource(h) ==
    /\ handlers[h].op = "start" /\ handlers[h].pc = "status"
    /\ executor' = [executor EXCEPT ![handlers[h].jobId] = "selectFile"]
    /\ handlers' = [handlers EXCEPT ![h] = Reply(@, "Created",
            [id |-> @.jobId, sourceId |-> @.sourceId, status |-> "pending",
             stage |-> Null, progress |-> 0])]
    /\ UNCHANGED <<sources, sourceFiles, sourceConfigurations, processingJobs,
                   datasets, datasetsIdSeq>>

\* update the source to 'processing' (await), call simulateProcessing without
\* awaiting it, and send 201 with the row the insert returned.
StartSetStatus(h) ==
    /\ handlers[h].op = "start" /\ handlers[h].pc = "status"
    /\ sources' = UpdateSourceStatus(handlers[h].sourceId, "processing")
    /\ executor' = [executor EXCEPT ![handlers[h].jobId] = "selectFile"]
    /\ handlers' = [handlers EXCEPT ![h] = Reply(@, "Created",
            [id |-> @.jobId, sourceId |-> @.sourceId, status |-> "pending",
             stage |-> Null, progress |-> 0])]
    /\ UNCHANGED <<sourceFiles, sourceConfigurations, processingJobs, datasets,
                   datasetsIdSeq>>

\* The response has been written to the socket: the request is over.
SendResponse(h) ==
    /\ handlers[h].pc = "respond"
    /\ handlers' = [handlers EXCEPT ![h] = idle]
    /\ UNCHANGED <<sources, sourceFiles, sourceConfigurations, processingJobs,
                   datasets, datasetsIdSeq, executor>>

(* ------------------------- simulateProcessing -------------------------- *)
\* select the source file (await); none: throw Error('Source file not found')
ExecSelectFile(j) ==
    /\ executor[j] = "selectFile"
    /\ executor' = [executor EXCEPT ![j] =
            IF processingJobs[j].sourceId \in sourceFiles
            THEN "setRunning" ELSE "catchJob"]
    /\ UNCHANGED <<sources, sourceFiles, sourceConfigurations, processingJobs,
                   datasets, datasetsIdSeq, handlers>>

\* "Start processing": status running, stage parsing, progress 0, startedAt
ExecSetRunning(j) ==
    /\ executor[j] = "setRunning"
    /\ processingJobs' = UpdateJob(j, [status |-> "running", stage |-> "parsing",
                                       progress |-> 0, startedAt |-> TRUE])
    /\ executor' = [executor EXCEPT ![j] = "parsing"]
    /\ UNCHANGED <<sources, sourceFiles, sourceConfigurations, datasets,
                   datasetsIdSeq, handlers>>

\* Mutant: the update after parsing does not record the total.
ExecParsingNoTotal(j) ==
    /\ executor[j] = "parsing"
    /\ processingJobs' = UpdateJob(j, [stage |-> "detecting_pii", progress |-> 25,
                                       recordsProcessed |-> 25])
    /\ executor' = [executor EXCEPT ![j] = "detecting_pii"]
    /\ UNCHANGED <<sources, sourceFiles, sourceConfigurations, datasets,
                   datasetsIdSeq, handlers>>

\* after the parsing delay
ExecParsing(j) ==
    /\ executor[j] = "parsing"
    /\ processingJobs' = UpdateJob(j, [stage |-> "detecting_pii", progress |-> 25,
                                       recordsProcessed |-> 25, totalRecords |-> 100])
    /\ executor' = [executor EXCEPT ![j] = "detecting_pii"]
    /\ UNCHANGED <<sources, sourceFiles, sourceConfigurations, datasets,
                   datasetsIdSeq, handlers>>

\* Mutant: the update after the PII detection names the stage after next.
ExecDetectingPiiSkipsStage(j) ==
    /\ executor[j] = "detecting_pii"
    /\ processingJobs' = UpdateJob(j, [stage |-> "mapping", progress |-> 50,
                                       recordsProcessed |-> 50])
    /\ executor' = [executor EXCEPT ![j] = "deidentifying"]
    /\ UNCHANGED <<sources, sourceFiles, sourceConfigurations, datasets,
                   datasetsIdSeq, handlers>>

\* after the PII detection delay
ExecDetectingPii(j) ==
    /\ executor[j] = "detecting_pii"
    /\ processingJobs' = UpdateJob(j, [stage |-> "deidentifying", progress |-> 50,
                                       recordsProcessed |-> 50])
    /\ executor' = [executor EXCEPT ![j] = "deidentifying"]
    /\ UNCHANGED <<sources, sourceFiles, sourceConfigurations, datasets,
                   datasetsIdSeq, handlers>>

\* Mutant: the update after the deidentification writes the progress alone.
ExecDeidentifyingProgressOnly(j) ==
    /\ executor[j] = "deidentifying"
    /\ processingJobs' = UpdateJob(j, [progress |-> 75, recordsProcessed |-> 75])
    /\ executor' = [executor EXCEPT ![j] = "mapping"]
    /\ UNCHANGED <<sources, sourceFiles, sourceConfigurations, datasets,
                   datasetsIdSeq, handlers>>

\* after the deidentification delay
ExecDeidentifying(j) ==
    /\ executor[j] = "deidentifying"
    /\ processingJobs' = UpdateJob(j, [stage |-> "mapping", progress |-> 75,
                                       recordsProcessed |-> 75])
    /\ executor' = [executor EXCEPT ![j] = "mapping"]
    /\ UNCHANGED <<sources, sourceFiles, sourceConfigurations, datasets,
                   datasetsIdSeq, handlers>>

\* Mutant: the executor goes on to mark the job completed without inserting
\* the dataset.
ExecCreateDatasetSkipped(j) ==
    /\ executor[j] = "mapping"
    /\ executor' = [executor EXCEPT ![j] = "markCompleted"]
    /\ UNCHANGED <<sources, sourceFiles, sourceConfigurations, processingJobs,
                   datasets, datasetsIdSeq, handlers>>

\* after the last delay: insert the output dataset; its downloadUrl is
\* `/api/datasets/${jobId}/download`, its id the next serial value.
ExecCreateDataset(j) ==
    /\ executor[j] = "mapping"
    /\ datasetsIdSeq' = datasetsIdSeq + 1
    /\ datasets' = datasets \cup {[id |-> datasetsIdSeq + 1, processingJobId |-> j,
                                   downloadUrl |-> j, recordCount |-> 100]}
    /\ executor' = [executor EXCEPT ![j] = "markCompleted"]
    /\ UNCHANGED <<sources, sourceFiles, sourceConfigurations, processingJobs,
                   handlers>>

\* Mutant: the last update sets the status and leaves stage and progress.
ExecMarkCompletedStatusOnly(j) ==
    /\ executor[j] = "markCompleted"
    /\ processingJobs' = UpdateJob(j, [status |-> "completed",
                                       completedAt |-> TRUE])
    /\ executor' = [executor EXCEPT ![j] = "sourceReady"]
    /\ UNCHANGED <<sources, sourceFiles, sourceConfigurations, datasets,
                   datasetsIdSeq, handlers>>

\* "Mark job as completed"
ExecMarkCompleted(j) ==
    /\ executor[j] = "markCompleted"
    /\ processingJobs' = UpdateJob(j, [status |-> "completed", stage |-> "complete",
                                       progress |-> 100, recordsProcessed |-> 100,
                                       completedAt |-> TRUE])
    /\ executor' = [executor EXCEPT ![j] = "sourceReady"]
    /\ UNCHANGED <<sources, sourceFiles, sourceConfigurations, datasets,
                   datasetsIdSeq, handlers>>

\* "Update source status": ready
ExecSourceReady(j) ==
    /\ executor[j] = "sourceReady"
    /\ sources' = UpdateSourceStatus(processingJobs[j].sourceId, "ready")
    /\ executor' = [executor EXCEPT ![j] = "done"]
    /\ UNCHANGED <<sourceFiles, sourceConfigurations, processingJobs, datasets,
                   datasetsIdSeq, handlers>>

\* Mutant: the catch block records the message and leaves the status alone.
ExecCatchJobMessageOnly(j) ==
    /\ executor[j] = "catchJob"
    /\ processingJobs' = UpdateJob(j, [errorMessage |-> "Source file not found"])
    /\ executor' = [executor EXCEPT ![j] = "catchSource"]
    /\ UNCHANGED <<sources, sourceFiles, sourceConfigurations, datasets,
                   datasetsIdSeq, handlers>>

\* catch: "Mark job as failed" with error.message
ExecCatchJob(j) ==
    /\ executor[j] = "catchJob"
    /\ processingJobs' = UpdateJob(j, [status |-> "failed",
                                       errorMessage |-> "Source file not found"])
    /\ executor' = [executor EXCEPT ![j] = "catchSource"]
    /\ UNCHANGED <<sources, sourceFiles, sourceConfigurations, datasets,
                   datasetsIdSeq, handlers>>

\* Mutant: the catch block puts the source back to configured.
ExecCatchSourceConfigured(j) ==
    /\ executor[j] = "catchSource"
    /\ sources' = UpdateSourceStatus(processingJobs[j].sourceId, "configured")
    /\ executor' = [executor EXCEPT ![j] = "done"]
    /\ UNCHANGED <<sourceFiles, sourceConfigurations, processingJobs, datasets,
                   datasetsIdSeq, handlers>>

\* catch: source status error
ExecCatchSource(j) ==
    /\ executor[j] = "catchSource"
    /\ sources' = UpdateSourceStatus(processingJobs[j].sourceId, "error")
    /\ executor' = [executor EXCEPT ![j] = "done"]
    /\ UNCHANGED <<sourceFiles, sourceConfigurations, processingJobs, datasets,
                   datasetsIdSeq, handlers>>

(* -------------------- POST /api/jobs/:jobId/cancel --------------------- *)
\* Mutant: only a completed job is refused; a failed one is cancelled again.
CancelVerifyCompletedOnly(jobId, userId) ==
    LET access == verifyJobAccess(jobId, userId)
        req == Request("cancel", userId, 0, jobId) IN
    /\ FreeSlots # {}
    /\ handlers' = [handlers EXCEPT ![NewSlot] =
            IF access # "ok"
            THEN Reply(req, access, <<>>)
            ELSE IF processingJobs[jobId].status = "completed"
            THEN Reply(req, "BadRequest", <<>>)
            ELSE [req EXCEPT !.pc = "job",
                             !.sourceId = processingJobs[jobId].sourceId]]
    /\ UNCHANGED <<sources, sourceFiles, sourceConfigurations, processingJobs,
                   datasets, datasetsIdSeq, executor>>

\* verifyJobAccess (await), then the status test on the row it returned.
CancelVerify(jobId, userId) ==
    LET access == verifyJobAccess(jobId, userId)
        req == Request("cancel", userId, 0, jobId) IN
    /\ FreeSlots # {}
    /\ handlers' = [handlers EXCEPT ![NewSlot] =
            IF access # "ok"
            THEN Reply(req, access, <<>>)
            ELSE IF processingJobs[jobId].status \notin {"pending", "running"}
            THEN Reply(req, "BadRequest", <<>>)
            ELSE [req EXCEPT !.pc = "job",
                             !.sourceId = processingJobs[jobId].sourceId]]
    /\ UNCHANGED <<sources, sourceFiles, sourceConfigurations, processingJobs,
                   datasets, datasetsIdSeq, executor>>

\* Mutant: cancel also resets the progress of the job.
CancelJobResetsProgress(h) ==
    /\ handlers[h].op = "cancel" /\ handlers[h].pc = "job"
    /\ processingJobs' = UpdateJob(handlers[h].jobId,
            [status |-> "failed", errorMessage |-> "Cancelled by user",
             progress |-> 0])
    /\ handlers' = [handlers EXCEPT ![h].pc = "source"]
    /\ UNCHANGED <<sources, sourceFiles, sourceConfigurations, datasets,
                   datasetsIdSeq, executor>>

\* Mutant: cancel sets the status and forgets the message.
CancelJobNoMessage(h) ==
    /\ handlers[h].op = "cancel" /\ handlers[h].pc = "job"
    /\ processingJobs' = UpdateJob(handlers[h].jobId, [status |-> "failed"])
    /\ handlers' = [handlers EXCEPT ![h].pc = "source"]
    /\ UNCHANGED <<sources, sourceFiles, sourceConfigurations, datasets,
                   datasetsIdSeq, executor>>

\* Mutant: cancel also stamps the job as finished.
CancelJobStampsCompletedAt(h) ==
    /\ handlers[h].op = "cancel" /\ handlers[h].pc = "job"
    /\ processingJobs' = UpdateJob(handlers[h].jobId,
            [status |-> "failed", errorMessage |-> "Cancelled by user",
             completedAt |-> TRUE])
    /\ handlers' = [handlers EXCEPT ![h].pc = "source"]
    /\ UNCHANGED <<sources, sourceFiles, sourceConfigurations, datasets,
                   datasetsIdSeq, executor>>

\* "Cancel job": status failed, errorMessage 'Cancelled by user' (await)
CancelJob(h) ==
    /\ handlers[h].op = "cancel" /\ handlers[h].pc = "job"
    /\ processingJobs' = UpdateJob(handlers[h].jobId,
            [status |-> "failed", errorMessage |-> "Cancelled by user"])
    /\ handlers' = [handlers EXCEPT ![h].pc = "source"]
    /\ UNCHANGED <<sources, sourceFiles, sourceConfigurations, datasets,
                   datasetsIdSeq, executor>>

\* "Update source status": configured (await), then 204
CancelSource(h) ==
    /\ handlers[h].op = "cancel" /\ handlers[h].pc = "source"
    /\ sources' = UpdateSourceStatus(handlers[h].sourceId, "configured")
    /\ handlers' = [handlers EXCEPT ![h] = Reply(@, "NoContent", <<>>)]
    /\ UNCHANGED <<sourceFiles, sourceConfigurations, processingJobs, datasets,
                   datasetsIdSeq, executor>>

(* ------------------------- GET /api/jobs/:jobId ------------------------ *)
\* The job fields of the response, taken from the row verifyJobAccess returned.
JobBody(jobId, outputDatasets) ==
    LET job == processingJobs[jobId] IN
    [id |-> jobId, sourceId |-> job.sourceId, status |-> job.status,
     stage |-> job.stage, progress |-> job.progress,
     recordsProcessed |-> job.recordsProcessed,
     totalRecords |-> job.totalRecords, errorMessage |-> job.errorMessage,
     startedAt |-> job.startedAt, completedAt |-> job.completedAt,
     datasets |-> outputDatasets]

\* Mutant: the datasets are selected whatever the status of the job.
GetJobVerifyAlwaysSelects(jobId, userId) ==
    LET access == verifyJobAccess(jobId, userId)
        req == Request("getJob", userId, 0, jobId) IN
    /\ FreeSlots # {}
    /\ handlers' = [handlers EXCEPT ![NewSlot] =
            IF access # "ok"
            THEN Reply(req, access, <<>>)
            ELSE [req EXCEPT !.pc = "datasets", !.body = JobBody(jobId, {})]]
    /\ UNCHANGED <<sources, sourceFiles, sourceConfigurations, processingJobs,
                   datasets, datasetsIdSeq, executor>>

\* verifyJobAccess (await); a job that is not completed is answered with
\* outputDatasets = [], a completed one goes on to select its datasets.
GetJobVerify(jobId, userId) ==
    LET access == verifyJobAccess(jobId, userId)
        req == Request("getJob", userId, 0, jobId) IN
    /\ FreeSlots # {}
    /\ handlers' = [handlers EXCEPT ![NewSlot] =
            IF access # "ok"
            THEN Reply(req, access, <<>>)
            ELSE IF processingJobs[jobId].status = "completed"
            THEN [req EXCEPT !.pc = "datasets", !.body = JobBody(jobId, {})]
            ELSE Reply(req, "Success", JobBody(jobId, {}))]
    /\ UNCHANGED <<sources, sourceFiles, sourceConfigurations, processingJobs,
                   datasets, datasetsIdSeq, executor>>

\* select the datasets where processingJobId = :jobId (await), then 200 with
\* the job row read before.
GetJobDatasets(h) ==
    /\ handlers[h].op = "getJob" /\ handlers[h].pc = "datasets"
    /\ handlers' = [handlers EXCEPT ![h] = Reply(@, "Success",
            [@.body EXCEPT !.datasets =
                {d \in datasets : d.processingJobId = handlers[h].jobId}])]
    /\ UNCHANGED <<sources, sourceFiles, sourceConfigurations, processingJobs,
                   datasets, datasetsIdSeq, executor>>

(* --------------------- GET /api/jobs/:jobId/progress ------------------- *)
\* verifyJobAccess (await), then 200 with the progress fields of the row.
GetProgress(jobId, userId) ==
    LET access == verifyJobAccess(jobId, userId)
        req == Request("getProgress", userId, 0, jobId) IN
    /\ FreeSlots # {}
    /\ handlers' = [handlers EXCEPT ![NewSlot] =
            IF access # "ok"
            THEN Reply(req, access, <<>>)
            ELSE Reply(req, "Success",
                    LET job == processingJobs[jobId] IN
                    [id |-> jobId, status |-> job.status, stage |-> job.stage,
                     progress |-> job.progress,
                     recordsProcessed |-> job.recordsProcessed,
                     totalRecords |-> job.totalRecords,
                     errorMessage |-> job.errorMessage])]
    /\ UNCHANGED <<sources, sourceFiles, sourceConfigurations, processingJobs,
                   datasets, datasetsIdSeq, executor>>

(* -------------------- GET /api/sources/:sourceId/jobs ------------------ *)
\* verifySourceAccess (await): an access error ends the request.
ListJobsVerify(sourceId, userId) ==
    LET access == verifySourceAccess(sourceId, userId)
        req == Request("listJobs", userId, sourceId, 0) IN
    /\ FreeSlots # {}
    /\ handlers' = [handlers EXCEPT ![NewSlot] =
            IF access # "ok"
            THEN Reply(req, access, <<>>)
            ELSE [req EXCEPT !.pc = "select"]]
    /\ UNCHANGED <<sources, sourceFiles, sourceConfigurations, processingJobs,
                   datasets, datasetsIdSeq, executor>>

\* The jobs of the source, newest first (createdAt follows the serial id).
RECURSIVE JobsOfSource(_, _)
JobsOfSource(sourceId, n) ==
    IF n = 0 THEN <<>>
    ELSE IF processingJobs[n].sourceId = sourceId
         THEN <<[id |-> n, status |-> processingJobs[n].status]>>
                  \o JobsOfSource(sourceId, n - 1)
         ELSE JobsOfSource(sourceId, n - 1)

\* select the jobs of the source ordered by createdAt desc (await), then 200.
ListJobsSelect(h) ==
    /\ handlers[h].op = "listJobs" /\ handlers[h].pc = "select"
    /\ handlers' = [handlers EXCEPT ![h] = Reply(@, "Success",
            JobsOfSource(@.sourceId, Len(processingJobs)))]
    /\ UNCHANGED <<sources, sourceFiles, sourceConfigurations, processingJobs,
                   datasets, datasetsIdSeq, executor>>

(* ---------------- PUT /api/sources/:sourceId/configuration ------------- *)
\* The schema accepts any fields array, the empty one included; the source
\* becomes 'configured' whatever its status was. A request the access check
\* rejects changes nothing.
UpdateConfiguration(sourceId, userId, fields) ==
    /\ verifySourceAccess(sourceId, userId) = "ok"
    /\ sourceConfigurations' = [sourceConfigurations EXCEPT ![sourceId] = fields]
    /\ sources' = UpdateSourceStatus(sourceId, "configured")
    /\ UNCHANGED <<sourceFiles, processingJobs, datasets, datasetsIdSeq,
                   executor, handlers>>

(* --------------------- DELETE /api/sources/:sourceId ------------------- *)
\* Soft delete; a request the access check rejects changes nothing.
DeleteSource(sourceId, userId) ==
    /\ verifySourceAccess(sourceId, userId) = "ok"
    /\ sources' = [sources EXCEPT ![sourceId].deletedAt = TRUE]
    /\ UNCHANGED <<sourceFiles, sourceConfigurations, processingJobs,
                   datasets, datasetsIdSeq, executor, handlers>>

(* -------------------- DELETE /api/datasets/:datasetId ------------------ *)
\* verifyDatasetAccess: joins dataset -> job -> source -> project -> user.
verifyDatasetAccess(datasetId, userId) ==
    IF \A d \in datasets : d.id # datasetId
    THEN "NotFound"
    ELSE LET d == CHOOSE x \in datasets : x.id = datasetId IN
         IF organizationId(userId)
              # organizationId(projectUserId(processingJobs[d.processingJobId].sourceId))
         THEN "Forbidden"
         ELSE "ok"

(* ----------------- GET /api/datasets/:datasetId/download --------------- *)
\* verifyDatasetAccess by dataset id, then the content of the row it returned
\* (the executor always stores dataContent).
DownloadDataset(datasetId, userId) ==
    LET access == verifyDatasetAccess(datasetId, userId) IN
    IF access # "ok"
    THEN [code |-> access, datasets |-> {}]
    ELSE [code |-> "Success", datasets |-> {d \in datasets : d.id = datasetId}]

\* A request the access check rejects changes nothing.
DeleteDataset(datasetId, userId) ==
    /\ verifyDatasetAccess(datasetId, userId) = "ok"
    /\ datasets' = {d \in datasets : d.id # datasetId}
    /\ UNCHANGED <<sources, sourceFiles, sourceConfigurations, processingJobs,
                   datasetsIdSeq, executor, handlers>>

(* ------------------------------- Next ---------------------------------- *)
Next ==
    \/ \E s \in SourceIds, u \in UserIds : StartVerify(s, u)
    \/ \E h \in DOMAIN handlers : StartCheckConfig(h)
    \/ \E h \in DOMAIN handlers : StartCheckRunning(h)
    \/ \E h \in DOMAIN handlers : StartInsert(h)
    \/ \E h \in DOMAIN handlers : StartSetStatus(h)
    \/ \E h \in DOMAIN handlers : SendResponse(h)
    \/ \E j \in JobIds : ExecSelectFile(j)
    \/ \E j \in JobIds : ExecSetRunning(j)
    \/ \E j \in JobIds : ExecParsing(j)
    \/ \E j \in JobIds : ExecDetectingPii(j)
    \/ \E j \in JobIds : ExecDeidentifying(j)
    \/ \E j \in JobIds : ExecCreateDataset(j)
    \/ \E j \in JobIds : ExecMarkCompleted(j)
    \/ \E j \in JobIds : ExecSourceReady(j)
    \/ \E j \in JobIds : ExecCatchJob(j)
    \/ \E j \in JobIds : ExecCatchSource(j)
    \/ \E j \in 1..MaxJobs, u \in UserIds : CancelVerify(j, u)
    \/ \E h \in DOMAIN handlers : CancelJob(h)
    \/ \E h \in DOMAIN handlers : CancelSource(h)
    \/ \E j \in 1..MaxJobs, u \in UserIds : GetJobVerify(j, u)
    \/ \E h \in DOMAIN handlers : GetJobDatasets(h)
    \/ \E j \in 1..MaxJobs, u \in UserIds : GetProgress(j, u)
    \/ \E s \in SourceIds, u \in UserIds : ListJobsVerify(s, u)
    \/ \E h \in DOMAIN handlers : ListJobsSelect(h)
    \/ \E s \in SourceIds, u \in UserIds, f \in FieldLists :
            UpdateConfiguration(s, u, f)
    \/ \E s \in SourceIds, u \in UserIds : DeleteSource(s, u)
    \/ \E d \in 1..datasetsIdSeq, u \in UserIds : DeleteDataset(d, u)

Spec == Init /\ [][Next]_vars

\* One step of the executor of job j: simulateProcessing resumes after an await.
ExecutorStep(j) ==
    /\ j \in JobIds
    /\ \/ ExecSelectFile(j) \/ ExecSetRunning(j) \/ ExecParsing(j)
       \/ ExecDetectingPii(j) \/ ExecDeidentifying(j) \/ ExecCreateDataset(j)
       \/ ExecMarkCompleted(j) \/ ExecSourceReady(j)
       \/ ExecCatchJob(j) \/ ExecCatchSource(j)

\* The handlers that write the database or start an executor: Next without
\* the three GET routes, which change no table and no executor.
NextWrite ==
    \/ \E s \in SourceIds, u \in UserIds : StartVerify(s, u)
    \/ \E h \in DOMAIN handlers : StartCheckConfig(h)
    \/ \E h \in DOMAIN handlers : StartCheckRunning(h)
    \/ \E h \in DOMAIN handlers : StartInsert(h)
    \/ \E h \in DOMAIN handlers : StartSetStatus(h)
    \/ \E h \in DOMAIN handlers : SendResponse(h)
    \/ \E j \in JobIds : ExecutorStep(j)
    \/ \E j \in 1..MaxJobs, u \in UserIds : CancelVerify(j, u)
    \/ \E h \in DOMAIN handlers : CancelJob(h)
    \/ \E h \in DOMAIN handlers : CancelSource(h)
    \/ \E s \in SourceIds, u \in UserIds, f \in FieldLists :
            UpdateConfiguration(s, u, f)
    \/ \E s \in SourceIds, u \in UserIds : DeleteSource(s, u)
    \/ \E d \in 1..datasetsIdSeq, u \in UserIds : DeleteDataset(d, u)

\* The event loop resumes every continuation whose awaited database call has
\* returned: the start handler that inserted a job goes on to call
\* simulateProcessing, and every executor goes on to its next step.
SpecFair ==
    /\ Init /\ [][NextWrite]_vars
    /\ \A h \in 1..MaxInFlight : WF_vars(StartSetStatus(h))
    /\ \A j \in 1..MaxJobs : WF_vars(ExecutorStep(j))

(* ------------- simulateProcessing: a failing database call ------------ *)
\* An awaited query or update inside the try block rejects: nothing is
\* written by that call and control passes to the catch block.
ExecThrow(j) ==
    /\ executor[j] \in {"selectFile", "setRunning", "parsing", "detecting_pii",
                        "deidentifying", "mapping", "markCompleted",
                        "sourceReady"}
    /\ executor' = [executor EXCEPT ![j] = "catchJobQuery"]
    /\ UNCHANGED <<sources, sourceFiles, sourceConfigurations, processingJobs,
                   datasets, datasetsIdSeq, handlers>>

\* catch: "Mark job as failed" with the message of the database error
ExecCatchJobQuery(j) ==
    /\ executor[j] = "catchJobQuery"
    /\ processingJobs' = UpdateJob(j, [status |-> "failed",
                                       errorMessage |-> "Query failed"])
    /\ executor' = [executor EXCEPT ![j] = "catchSource"]
    /\ UNCHANGED <<sources, sourceFiles, sourceConfigurations, datasets,
                   datasetsIdSeq, handlers>>

\* The writing handlers and the executor, with database calls of the
\* executor that may fail.
NextFaults ==
    \/ NextWrite
    \/ \E j \in JobIds : ExecThrow(j)
    \/ \E j \in JobIds : ExecCatchJobQuery(j)

SpecFaults == Init /\ [][NextFaults]_vars

(* ======================= the claims, C1 .. C10 ========================= *)
Terminal(status) == status \in {"completed", "failed"}

ActiveJobs(sourceId) ==
    {j \in JobIds : /\ processingJobs[j].sourceId = sourceId
                    /\ processingJobs[j].status \in {"pending", "running"}}

DatasetsOf(jobId) == {d \in datasets : d.processingJobId = jobId}

\* the handler in slot h moved in this step
Stepped(h) == handlers'[h] # handlers[h]

\* nothing in the database, and no executor, changed in this step
DbUnchanged ==
    UNCHANGED <<sources, sourceFiles, sourceConfigurations, processingJobs,
                datasets, datasetsIdSeq, executor>>

\* C1: in every reachable state a source has at most one job whose status is
\* pending or running.  (Violated: the start handler looks for a `running`
\* job only, so a second start is accepted while the first job is pending.)
C1_AtMostOneActiveJob ==
    \A s \in SourceIds : Cardinality(ActiveJobs(s)) <= 1

\* C2: in every reachable state at most one job of a source is `running`.
\* (Violated: two jobs accepted while pending are both set running.)
C2_AtMostOneRunningJob ==
    \A s \in SourceIds : Cardinality(RunningJobs(s)) <= 1

\* C3: once a job is completed or failed, no step changes its status.
\* (Violated: the executor's writes and a cancel that read the status earlier
\* are unconditional updates by id.)
C3_TerminalStatusStable ==
    [][\A j \in JobIds :
          Terminal(processingJobs[j].status)
              => processingJobs'[j].status = processingJobs[j].status]_vars

\* C4: a job that cancel marked failed is never set to running or completed
\* by a later executor step.  (Violated: see C3.)
C4_NoResurrectionAfterCancel ==
    [][\A j \in JobIds :
          (/\ processingJobs[j].status = "failed"
           /\ processingJobs[j].errorMessage = "Cancelled by user")
              => processingJobs'[j].status \notin {"running", "completed"}]_vars

\* C5: the stored progress of a job never decreases from one state to the
\* next, whatever cancel requests are interleaved with the executor.
C5_ProgressNonDecreasing ==
    [][\A j \in JobIds :
          processingJobs'[j].progress >= processingJobs[j].progress]_vars

\* C5 witness: a job the executor carried to progress 100 although a cancel
\* was interleaved with it.
C5_Witness ==
    \E j \in JobIds : /\ processingJobs[j].progress = 100
                      /\ processingJobs[j].errorMessage = "Cancelled by user"

\* C6: every failed job has a non-null errorMessage.
C6_FailedHasErrorMessage ==
    \A j \in JobIds :
        processingJobs[j].status = "failed" => processingJobs[j].errorMessage # Null

\* C6 witness: one job failed by the executor's catch, another by cancel.
C6_Witness ==
    \E j, k \in JobIds :
        /\ processingJobs[j].status = "failed"
        /\ processingJobs[j].errorMessage = "Source file not found"
        /\ processingJobs[k].status = "failed"
        /\ processingJobs[k].errorMessage = "Cancelled by user"

\* C7 as claimed: every completed job is referenced by exactly one dataset.
\* (Violated: DELETE /datasets/:datasetId removes the row of a completed job.)
C7_ExactlyOneDataset ==
    \A j \in JobIds :
        processingJobs[j].status = "completed" => Cardinality(DatasetsOf(j)) = 1

\* no dataset row has been deleted: every id the serial issued is in the table
NoDatasetDeleted == Cardinality(datasets) = datasetsIdSeq

\* C7 amended: every completed job is referenced by at most one dataset, and
\* by exactly one as long as no dataset row has been deleted.
C7_ExactlyOneDatasetUntilDeleted ==
    \A j \in JobIds :
        processingJobs[j].status = "completed"
            => /\ Cardinality(DatasetsOf(j)) <= 1
               /\ NoDatasetDeleted => Cardinality(DatasetsOf(j)) = 1

\* C7 witness: two completed jobs, each with its dataset, nothing deleted.
C7_Witness ==
    /\ NoDatasetDeleted
    /\ \E j, k \in JobIds :
          /\ j # k
          /\ processingJobs[j].status = "completed"
          /\ processingJobs[k].status = "completed"
          /\ Cardinality(DatasetsOf(j)) = 1
          /\ Cardinality(DatasetsOf(k)) = 1

\* C8 as claimed: a start request (past the access guard) that is answered
\* while its source has a running job is answered BadRequest, and the step
\* changes nothing in the database.  (Violated: the configuration is checked
\* first, so an empty schema is answered Unprocessable.)
C8_RunningAlwaysBadRequest ==
    [][\A h \in DOMAIN handlers :
          (/\ handlers[h].op = "start"
           /\ handlers'[h].pc = "respond" /\ Stepped(h)
           /\ RunningJobs(handlers[h].sourceId) # {})
              => handlers'[h].code = "BadRequest" /\ DbUnchanged]_vars

\* C8 amended: a start request whose running-job query finds a running job
\* of the source is answered BadRequest; one whose configuration has no field
\* is answered Unprocessable although a job of the source is running; both
\* insert no row, start no executor and leave sources and jobs unchanged.
C8_RunningFoundBadRequest ==
    [][\A h \in DOMAIN handlers :
          (/\ handlers[h].op = "start" /\ Stepped(h)
           /\ RunningJobs(handlers[h].sourceId) # {})
              => /\ handlers[h].pc = "running"
                    => /\ handlers'[h].pc = "respond"
                       /\ handlers'[h].code = "BadRequest"
                       /\ DbUnchanged
                 /\ (/\ handlers[h].pc = "config"
                     /\ Len(sourceConfigurations[handlers[h].sourceId]) = 0)
                    => /\ handlers'[h].pc = "respond"
                       /\ handlers'[h].code = "Unprocessable"
                       /\ DbUnchanged]_vars

\* C8 witness: a start answered BadRequest while a job of the source runs.
C8_Witness ==
    \E h \in DOMAIN handlers :
        /\ handlers[h].op = "start" /\ handlers[h].pc = "respond"
        /\ handlers[h].code = "BadRequest"
        /\ RunningJobs(handlers[h].sourceId) # {}

C10_CancelTerminalBadRequest ==
    [][\A h \in DOMAIN handlers :
          (/\ handlers[h].op = "idle" /\ handlers'[h].op = "cancel"
           /\ verifyJobAccess(handlers'[h].jobId, handlers'[h].userId) = "ok"
           /\ Terminal(processingJobs[handlers'[h].jobId].status))
              => /\ handlers'[h].pc = "respond"
                 /\ handlers'[h].code = "BadRequest"
                 /\ DbUnchanged]_vars

\* C10 witness: BadRequest for the cancel of a completed job.
C10_Witness ==
    \E h \in DOMAIN handlers :
        /\ handlers[h].op = "cancel" /\ handlers[h].pc = "respond"
        /\ handlers[h].code = "BadRequest"
        /\ processingJobs[handlers[h].jobId].status = "completed"

(* ======================= the claims, C11 .. C20 ======================== *)
\* a 200 response of GET /jobs/:jobId that is being sent
GetJobResponses ==
    {h \in DOMAIN handlers : /\ handlers[h].op = "getJob"
                             /\ handlers[h].pc = "respond"
                             /\ handlers[h].code = "Success"}

\* the newest job of the source of job j
NewestJobOfSource(j) ==
    \A k \in JobIds : processingJobs[k].sourceId = processingJobs[j].sourceId
                          => k <= j

\* C11: after a cancel has succeeded on a job (the job row carries the message
\* only the cancel handler writes), every getJob response shows status `failed`
\* with errorMessage "Cancelled by user", and the source of the job, as long
\* as no later job was started on it, has status `configured`.  (Violated: the
\* executor of the cancelled job goes on writing the job and the source.)
C11_CancelledJobStaysFailed ==
    \A h \in GetJobResponses :
        handlers[h].body.errorMessage = "Cancelled by user"
            => /\ handlers[h].body.status = "failed"
               /\ NewestJobOfSource(handlers[h].jobId)
                     => sources[handlers[h].body.sourceId].status = "configured"

\* a request of user userId on a source (not soft-deleted) or a job that
\* exists and belongs to another organization
ForeignSource(sourceId, userId) ==
    /\ sourceId \in DOMAIN sources /\ ~sources[sourceId].deletedAt
    /\ organizationId(userId) # organizationId(projectUserId(sourceId))

ForeignJob(jobId, userId) ==
    /\ jobId \in JobIds
    /\ organizationId(userId)
          # organizationId(projectUserId(processingJobs[jobId].sourceId))

\* C12: a request (start, getJob, getProgress, cancel, listJobs) of a caller
\* whose organization is not the owner's, on an entity that exists, is answered
\* Forbidden with no data, and the step changes no job, source or dataset.
C12_ForeignCallerForbidden ==
    [][\A h \in DOMAIN handlers :
          (/\ handlers[h].op = "idle"
           /\ \/ /\ handlers'[h].op \in {"start", "listJobs"}
                 /\ ForeignSource(handlers'[h].sourceId, handlers'[h].userId)
              \/ /\ handlers'[h].op \in {"getJob", "getProgress", "cancel"}
                 /\ ForeignJob(handlers'[h].jobId, handlers'[h].userId))
              => /\ handlers'[h].pc = "respond"
                 /\ handlers'[h].code = "Forbidden"
                 /\ handlers'[h].body = <<>>
                 /\ DbUnchanged]_vars

\* C12 witness: a foreign caller's cancel of a running job was refused.
C12_Witness ==
    \E h \in DOMAIN handlers :
        /\ handlers[h].op = "cancel" /\ handlers[h].code = "Forbidden"
        /\ ForeignJob(handlers[h].jobId, handlers[h].userId)
        /\ processingJobs[handlers[h].jobId].status = "running"

\* the source does not exist or is soft-deleted
SourceGone(sourceId) ==
    sourceId \notin DOMAIN sources \/ sources[sourceId].deletedAt

\* the job does not exist or its owning source is soft-deleted
JobGone(jobId) ==
    jobId \notin JobIds \/ SourceGone(processingJobs[jobId].sourceId)

\* C13: a request on an entity that does not exist or is soft-deleted (start
\* and listJobs on a soft-deleted source; getJob, getProgress and cancel on a
\* job whose source is soft-deleted) is answered NotFound, whatever the
\* caller's organization, and changes nothing.  (Violated: the job guard does
\* not look at the deletedAt of the source.)
C13_GoneEntityNotFound ==
    [][\A h \in DOMAIN handlers :
          (/\ handlers[h].op = "idle"
           /\ \/ /\ handlers'[h].op \in {"start", "listJobs"}
                 /\ SourceGone(handlers'[h].sourceId)
              \/ /\ handlers'[h].op \in {"getJob", "getProgress", "cancel"}
                 /\ JobGone(handlers'[h].jobId))
              => /\ handlers'[h].pc = "respond"
                 /\ handlers'[h].code = "NotFound"
                 /\ DbUnchanged]_vars

Caught(j) == executor[j] \in {"catchJob", "catchJobQuery"}

C16_NoDatasetOfFailedJob ==
    \A j \in JobIds :
        /\ Cardinality(DatasetsOf(j)) <= 1
        /\ DatasetsOf(j) # {} => processingJobs[j].status # "failed"

\* C17: an accepted start inserts exactly one job row, with status `pending`,
\* stage null and progress 0; it then sets the source to `processing` and
\* answers 201 with that job as it was inserted: the status in the response
\* is `pending` however far the executor has got before the response is sent.
C17_StartCreatesOnePendingJob ==
    [][\A h \in DOMAIN handlers :
          /\ (handlers[h].op = "start" /\ Stepped(h))
                => IF handlers[h].pc = "insert"
                   THEN LET n == Len(processingJobs) + 1 IN
                        /\ Len(processingJobs') = n
                        /\ SubSeq(processingJobs', 1, n - 1) = processingJobs
                        /\ processingJobs'[n].sourceId = handlers[h].sourceId
                        /\ processingJobs'[n].status = "pending"
                        /\ processingJobs'[n].stage = Null
                        /\ processingJobs'[n].progress = 0
                        /\ handlers'[h].jobId = n
                   ELSE processingJobs' = processingJobs
          /\ (handlers[h].op = "start" /\ handlers[h].pc = "status" /\ Stepped(h))
                => /\ sources'[handlers[h].sourceId].status = "processing"
                   /\ handlers'[h].pc = "respond"
                   /\ handlers'[h].code = "Created"
          /\ (handlers'[h].op = "start" /\ handlers'[h].code = "Created")
                => /\ handlers'[h].body.id = handlers'[h].jobId
                   /\ handlers'[h].body.status = "pending"
                   /\ handlers'[h].body.stage = Null
                   /\ handlers'[h].body.progress = 0]_vars

\* C17 witness: the 201 with status pending is being sent while the executor
\* has already completed the job.
C17_Witness ==
    \E h \in DOMAIN handlers :
        /\ handlers[h].op = "start" /\ handlers[h].code = "Created"
        /\ handlers[h].body.status = "pending"
        /\ processingJobs[handlers[h].jobId].status = "completed"
        /\ sources[handlers[h].sourceId].status = "ready"

\* C18: getJob returns a non-empty datasets list for every job it reports as
\* `completed`, and an empty list for every job it reports as pending, running
\* or failed.  (Violated: the dataset of a completed job can be deleted.)
C18_CompletedHasDatasets ==
    \A h \in GetJobResponses :
        IF handlers[h].body.status = "completed"
        THEN handlers[h].body.datasets # {}
        ELSE handlers[h].body.datasets = {}

\* C18, amended: the executor that is about to write `completed` has its
\* dataset persisted, and getJob returns an empty datasets list for every job
\* it reports as pending, running or failed and, as long as no dataset has
\* been deleted, a non-empty list of datasets of that job for every job it
\* reports as `completed`.
C18_CompletedHasDatasetsUntilDeleted ==
    /\ \A j \in JobIds :
          (executor[j] = "markCompleted" /\ NoDatasetDeleted)
              => DatasetsOf(j) # {}
    /\ \A h \in GetJobResponses :
          /\ handlers[h].body.status # "completed"
                => handlers[h].body.datasets = {}
          /\ (handlers[h].body.status = "completed" /\ NoDatasetDeleted)
                => /\ handlers[h].body.datasets # {}
                   /\ \A d \in handlers[h].body.datasets :
                         d.processingJobId = handlers[h].jobId

\* C18 witness: getJob reports a completed job with its dataset.
C18_Witness ==
    \E h \in GetJobResponses :
        /\ handlers[h].body.status = "completed"
        /\ handlers[h].body.datasets # {}
        /\ NoDatasetDeleted

\* the step was taken by the executor of job j / by a cancel request on job j
ByExecutor(j) == executor'[j] # executor[j]

ByCancel(j) ==
    \E h \in DOMAIN handlers :
        /\ handlers[h].op = "cancel" /\ handlers[h].jobId = j /\ Stepped(h)

\* C19: every change of a job's status is pending -> running, running ->
\* completed or running -> failed by the executor, or pending -> failed or
\* running -> failed by cancel.  (Violated: the executor and the cancel handler
\* write the status without re-reading it, and the executor fails a pending
\* job whose source has no file.)
C19_StatusStateMachine ==
    [][\A j \in JobIds :
          LET from == processingJobs[j].status
              to == processingJobs'[j].status IN
          to # from
              => \/ /\ ByExecutor(j)
                    /\ <<from, to>> \in {<<"pending", "running">>,
                                         <<"running", "completed">>,
                                         <<"running", "failed">>}
                 \/ /\ ByCancel(j)
                    /\ <<from, to>> \in {<<"pending", "failed">>,
                                         <<"running", "failed">>}]_vars

\* the fixed order of the stages, from the null stage of a new job
StageOrder ==
    <<Null, "parsing", "detecting_pii", "deidentifying", "mapping", "complete">>

\* C20: the stage of a job only ever changes to the next stage of null ->
\* parsing -> detecting_pii -> deidentifying -> mapping -> complete: no stage
\* is skipped, entered twice or entered out of order, whatever cancel does
\* in between.
C20_StageOrder ==
    [][\A j \in JobIds :
          processingJobs'[j].stage # processingJobs[j].stage
              => \E i \in 1..(Len(StageOrder) - 1) :
                    /\ processingJobs[j].stage = StageOrder[i]
                    /\ processingJobs'[j].stage = StageOrder[i + 1]]_vars

\* C20 witness: a job cancelled while it was parsing has gone through the
\* remaining stages to `complete`.
C20_Witness ==
    \E j \in JobIds :
        /\ processingJobs[j].stage = "complete"
        /\ processingJobs[j].errorMessage = "Cancelled by user"
        /\ \E h \in DOMAIN handlers :
              /\ handlers[h].op = "cancel" /\ handlers[h].jobId = j
              /\ handlers[h].code = "NoContent"

(* ======================= the claims, C21 .. C30 ======================== *)
\* the (stage, progress) pairs the executor writes, and that of a new job
Checkpoints ==
    {<<Null, 0>>, <<"parsing", 0>>, <<"detecting_pii", 25>>,
     <<"deidentifying", 50>>, <<"mapping", 75>>, <<"complete", 100>>}

\* C21: after every step the (stage, progress) pair of every job is one of
\* the fixed checkpoints, and the progress never changes without the stage:
\* the two are written by the same update.
C21_StageProgressCheckpoints ==
    [][/\ \A j \in 1..Len(processingJobs') :
            <<processingJobs'[j].stage, processingJobs'[j].progress>>
                \in Checkpoints
       /\ \A j \in JobIds :
            processingJobs'[j].progress # processingJobs[j].progress
                => processingJobs'[j].stage # processingJobs[j].stage]_vars

\* C21 witness: one job at (complete, 100) and one at (detecting_pii, 25).
C21_Witness ==
    /\ Len(processingJobs) = 2
    /\ processingJobs[1].stage = "complete" /\ processingJobs[1].progress = 100
    /\ processingJobs[2].stage = "detecting_pii"
    /\ processingJobs[2].progress = 25

\* C22: a job whose status is `completed` has progress 100 and stage
\* `complete`, and a job that is pending or running has progress below 100.
C22_CompletedIffFullProgress ==
    \A j \in JobIds :
        /\ processingJobs[j].status = "completed"
              => /\ processingJobs[j].progress = 100
                 /\ processingJobs[j].stage = "complete"
        /\ processingJobs[j].status \in {"pending", "running"}
              => processingJobs[j].progress < 100

\* C22 witness: a job that was cancelled while running has been completed by
\* its executor, and another job is running.
C22_Witness ==
    /\ Len(processingJobs) = 2
    /\ processingJobs[1].status = "completed"
    /\ processingJobs[1].errorMessage = "Cancelled by user"
    /\ processingJobs[1].progress = 100
    /\ processingJobs[2].status = "running"
    /\ processingJobs[2].progress = 75

\* C23: a job carries an error message only if its status is `failed`.
\* (Violated: the executor of a cancelled job sets the status back to running
\* and later to completed, and leaves the message of the cancel.)
C23_ErrorMessageOnlyIfFailed ==
    \A j \in JobIds :
        processingJobs[j].errorMessage # Null
            => processingJobs[j].status = "failed"

\* C24: after every step, the totalRecords of a job is null while its stage
\* is null or parsing and non-null in every later stage, where recordsProcessed
\* does not exceed it; and once totalRecords is known it never changes.
C24_TotalRecordsKnownAfterParsing ==
    [][/\ \A j \in 1..Len(processingJobs') :
            IF processingJobs'[j].stage \in {Null, "parsing"}
            THEN processingJobs'[j].totalRecords = NullInt
            ELSE /\ processingJobs'[j].totalRecords # NullInt
                 /\ processingJobs'[j].recordsProcessed
                        <= processingJobs'[j].totalRecords
       /\ \A j \in JobIds :
            processingJobs[j].totalRecords # NullInt
                => processingJobs'[j].totalRecords
                        = processingJobs[j].totalRecords]_vars

\* C24 witness: a completed job has processed all of its records, and a job
\* that is still parsing has no total yet.
C24_Witness ==
    /\ Len(processingJobs) = 2
    /\ processingJobs[1].stage = "complete"
    /\ processingJobs[1].recordsProcessed = processingJobs[1].totalRecords
    /\ processingJobs[2].stage = "parsing"
    /\ processingJobs[2].totalRecords = NullInt

\* the datasets that do not belong to job j
DatasetsOfOthers(j) == {d \in datasets : d.processingJobId # j}

\* the step leaves every job but j, every source but that of j, and the
\* datasets of every job but j as they were
OnlyTouches(j) ==
    /\ Len(processingJobs') = Len(processingJobs)
    /\ \A k \in JobIds \ {j} : processingJobs'[k] = processingJobs[k]
    /\ \A s \in SourceIds \ {processingJobs[j].sourceId} :
          sources'[s] = sources[s]
    /\ DatasetsOfOthers(j)' = DatasetsOfOthers(j)

\* C25: every executor step and every step of a cancel for a job J of source
\* S leaves all jobs other than J, all sources other than S and the datasets
\* of all other jobs unchanged; and a start is refused as BadRequest only when
\* a job of its own source is running, never because of a job of another
\* source.
C25_SourcesIndependent ==
    [][/\ \A j \in JobIds : (ByExecutor(j) \/ ByCancel(j)) => OnlyTouches(j)
       /\ \A h \in DOMAIN handlers :
            (/\ handlers[h].op = "start" /\ handlers[h].pc # "respond"
             /\ handlers'[h].op = "start" /\ handlers'[h].pc = "respond"
             /\ handlers'[h].code = "BadRequest")
                => \E j \in JobIds :
                      /\ processingJobs[j].sourceId = handlers[h].sourceId
                      /\ processingJobs[j].status = "running"]_vars

\* C25 witness: a start on source 2 has passed the running-job test and is
\* about to insert its job while a job of source 1 is running.
C25_Witness ==
    \E h \in DOMAIN handlers :
        /\ handlers[h].op = "start" /\ handlers[h].pc = "insert"
        /\ handlers[h].sourceId = 2
        /\ \E j \in JobIds : /\ processingJobs[j].sourceId = 1
                             /\ processingJobs[j].status = "running"

\* a cancel of job j has passed its status test and has a write left to do
CancelInFlight(j) ==
    \E h \in DOMAIN handlers :
        /\ handlers[h].op = "cancel" /\ handlers[h].jobId = j
        /\ handlers[h].pc \in {"job", "source"}

\* the executor of job j has returned and no cancel of j has a write left
Finished(j) == executor[j] = "done" /\ ~CancelInFlight(j)

\* j is the only job of its source
SingleJob(j) ==
    \A k \in JobIds :
        processingJobs[k].sourceId = processingJobs[j].sourceId => k = j

\* the status of the source of job j agrees with the final status of j
SourceAgrees(j) ==
    LET job == processingJobs[j]
        status == sources[job.sourceId].status IN
    /\ job.status = "completed" => status = "ready"
    /\ (job.status = "failed" /\ job.errorMessage = "Cancelled by user")
          => status = "configured"
    /\ (job.status = "failed" /\ job.errorMessage # "Cancelled by user")
          => status = "error"

\* C26: at the step with which the executor of the only job of a source and
\* every cancel of that job have finished, the source status agrees with the
\* final status of the job: completed and `ready`, cancelled and `configured`,
\* failed on an error and `error`.  (Violated: the two writes of cancel and
\* the writes of the executor interleave.)
C26_SourceAgreesWithJob ==
    [][\A j \in JobIds :
          (~Finished(j) /\ Finished(j)' /\ SingleJob(j)') => SourceAgrees(j)']_vars

\* the executor runs of source sourceId that have started and not returned
ExecutorsInFlight(sourceId) ==
    {j \in JobIds : /\ processingJobs[j].sourceId = sourceId
                    /\ executor[j] \notin {"notStarted", "done"}}

\* C27: at most one executor run is in flight per source.  (Violated: a start
\* is accepted while the earlier job of the source is pending, or cancelled
\* with its executor still running.)
C27_OneExecutorPerSource ==
    \A s \in SourceIds : Cardinality(ExecutorsInFlight(s)) <= 1

\* C28: a source that has a job with status pending or running has status
\* `processing`.  (Violated: the job is inserted before the source is updated,
\* a configuration update sets the source to `configured` while its job runs,
\* and the executor of a cancelled job sets the job back to running.)
C28_ActiveJobSourceProcessing ==
    \A j \in JobIds :
        processingJobs[j].status \in {"pending", "running"}
            => sources[processingJobs[j].sourceId].status = "processing"

\* the columns of a job that cancel does not write
CancelFrame(job) ==
    <<job.sourceId, job.stage, job.progress, job.recordsProcessed,
      job.totalRecords, job.startedAt, job.completedAt>>

\* C29: no step of a cancel request changes the stage, progress,
\* recordsProcessed, totalRecords, startedAt or completedAt of its job, any
\* other job, or the datasets table: a successful cancel changes the status
\* and errorMessage of its job and the status of the source only.
C29_CancelFrame ==
    [][\A h \in DOMAIN handlers :
          (handlers'[h].op = "cancel" \/ handlers[h].op = "cancel") /\ Stepped(h)
              => /\ Len(processingJobs') = Len(processingJobs)
                 /\ \A j \in JobIds :
                       IF j = handlers[h].jobId /\ handlers[h].pc = "job"
                       THEN /\ CancelFrame(processingJobs'[j])
                                = CancelFrame(processingJobs[j])
                            /\ processingJobs'[j].status = "failed"
                            /\ processingJobs'[j].errorMessage = "Cancelled by user"
                       ELSE processingJobs'[j] = processingJobs[j]
                 /\ UNCHANGED <<datasets, datasetsIdSeq, sourceFiles,
                                sourceConfigurations, executor>>
                 /\ \A s \in SourceIds :
                       sources'[s] # sources[s]
                           => /\ handlers[h].pc = "source"
                              /\ s = handlers[h].sourceId
                              /\ sources'[s] = [sources[s] EXCEPT
                                                   !.status = "configured"]]_vars

\* C29 witness: a cancel has succeeded on a job that was deidentifying; the
\* job keeps its stage, progress, counters and timestamps.
C29_Witness ==
    \E h \in DOMAIN handlers :
        /\ handlers[h].op = "cancel" /\ handlers[h].code = "NoContent"
        /\ LET job == processingJobs[handlers[h].jobId] IN
           /\ job.status = "failed" /\ job.errorMessage = "Cancelled by user"
           /\ job.stage = "deidentifying" /\ job.progress = 50
           /\ job.recordsProcessed = 50 /\ job.totalRecords = 100
           /\ job.startedAt /\ ~job.completedAt
        /\ datasets = {}

\* C30: for every dataset D, the download route called by the owner with the
\* number in D.downloadUrl answers with D.  (Violated: the executor builds
\* the URL from the job id, and the route looks the number up as a dataset id.)
C30_DownloadUrlResolves ==
    \A d \in datasets :
        LET owner == projectUserId(processingJobs[d.processingJobId].sourceId)
            response == DownloadDataset(d.downloadUrl, owner) IN
        /\ response.code = "Success"
        /\ response.datasets = {d}

====
